---- MODULE Spec2Model ----
(***************************************************************************)
(* Keyset (seek) pagination of sqla-pagination: KeySetPaginator builds the *)
(* modified statement (filter past the bookmark, resolved ordering, limit  *)
(* page_size + 1), the statement is executed against a static table, and   *)
(* KeySetPage derives the shown rows and the next / previous bookmarks.    *)
(***************************************************************************)
EXTENDS Integers, Sequences, FiniteSets, TLC

\* ------------------------------------------------------------------ bounds
MaxId == 5
MaxVal == 2
MaxPageSize == 2
MaxCounter == 4
MaxThreads == 2
MaxBindings == 2
MaxRowsCount == 10
MaxLimit == 3
MaxOffset == 4
MaxLinks == 2
MaxReversals == 2
MaxRecursion == 1002

\* ------------------------------------------------------- values and tables
Ids == 1..MaxId
Vals == 1..MaxVal
Stamps == {1, 2}
Dialects == {"None", "postgresql"}
PageSizes == 1..MaxPageSize

\* SUPPORTS_NATIVE_ROW_VALUES_COMPARISON
SUPPORTS_NATIVE_ROW_VALUES_COMPARISON == {"postgresql", "mysql", "sqlite"}

\* An ORDER BY clause element: a column of a table with an optional modifier.
Clause(t, n, m) == [table |-> t, name |-> n, modifier |-> m]

\* A selected entity (select(Author)) or a selected column attribute
\* (select(Author.id)) as listed in column_descriptions.
Entity(t) == [kind |-> "entity", table |-> t, name |-> ""]
Attribute(t, n) == [kind |-> "attribute", table |-> t, name |-> n]

\* select(Author) and select(Author, Book).outerjoin(Author.books)
SelectAuthor == [columns |-> <<Entity("authors")>>, join |-> ""]
SelectAuthorBook == [columns |-> <<Entity("authors"), Entity("books")>>, join |-> "Author.books"]

\* select(...).order_by(...).group_by(...)
Select(from, order_by, group_by) ==
    [columns |-> from.columns, join |-> from.join, order_by |-> order_by, group_by |-> group_by]

\* The base queries: select(...).order_by(...) over one, two or three ordering keys.
Queries ==
    {Select(SelectAuthor, <<Clause("authors", "id", m)>>, <<>>) : m \in {"none", "asc", "desc"}}
    \cup
    {Select(SelectAuthor, <<Clause("authors", "id", "none")>>, <<"id">>)}
    \cup
    {Select(SelectAuthorBook,
            <<Clause("authors", "id", m1), Clause("books", "published_at", m2)>>, <<>>) :
        m1 \in {"none", "desc"}, m2 \in {"asc", "desc"}}
    \cup
    {Select(SelectAuthorBook,
            <<Clause("authors", "id", m1), Clause("books", "book_id", "desc"),
              Clause("books", "published_at", m3)>>, <<>>) :
        m1 \in {"none", "desc"}, m3 \in {"none", "desc"}}

\* select(Author, Light).join(Light, Light.id == Author.id)
SelectAuthorLight ==
    [columns |-> <<Entity("authors"), Entity("lights")>>, join |-> "Light.id == Author.id"]

\* Queries ordered by two keys of different tables whose columns have the same
\* name. The join makes both columns equal, so a row has one value "id".
SameNameQueries ==
    {Select(SelectAuthorLight, <<Clause("authors", "id", m1), Clause("lights", "id", m2)>>, <<>>) :
        m1 \in {"none", "desc"}, m2 \in {"none", "desc"}}

\* All ordering keys of the query have the same column name.
SameNames(q) == \A i \in 1..Len(q.order_by) : q.order_by[i].name = q.order_by[1].name

\* The rows a table can hold for a query: one value per ordering column.
RowsOf(q) ==
    IF Len(q.order_by) = 1 \/ SameNames(q)
    THEN {[id |-> i] : i \in Ids}
    ELSE IF Len(q.order_by) = 2
    THEN {[id |-> i, published_at |-> s] : i \in Vals, s \in Stamps}
    ELSE {[id |-> i, book_id |-> b, published_at |-> s] : i \in Vals, b \in Stamps, s \in Stamps}

\* ------------------------------------------------------ ordering (ordering.py)
\* _get_order_direction: the asc/desc modifier of a clause, "none" when absent.
_get_order_direction(column_element) ==
    IF column_element.modifier \in {"asc", "desc"} THEN column_element.modifier ELSE "none"

\* _reverse_order_direction: a copy with asc and desc exchanged.
_reverse_order_direction(column_element) ==
    IF column_element.modifier = "asc" THEN [column_element EXCEPT !.modifier = "desc"]
    ELSE IF column_element.modifier = "desc" THEN [column_element EXCEPT !.modifier = "asc"]
    ELSE column_element

\* OrderByColumnWrapper.__init__: direction defaults to ascending; name is the
\* part of "table.column" after the first dot.
OrderByColumnWrapper(column_name_or_obj) ==
    [column_name_or_obj |->
        IF _get_order_direction(column_name_or_obj) = "none"
        THEN [column_name_or_obj EXCEPT !.modifier = "asc"]
        ELSE column_name_or_obj,
     table_name |-> column_name_or_obj.table,
     name |-> column_name_or_obj.name]

is_ascending(c) == _get_order_direction(c.column_name_or_obj) = "asc"

reversed(c) == OrderByColumnWrapper(_reverse_order_direction(c.column_name_or_obj))

parse_order_by_clause(selectable) ==
    [i \in 1..Len(selectable.order_by) |-> OrderByColumnWrapper(selectable.order_by[i])]

\* Operands of a comparison: the ordering column itself or a bound value.
ColOperand(c) == [kind |-> "col", name |-> c.name, value |-> 0]
ValOperand(v) == [kind |-> "val", name |-> "", value |-> v]

\* A pair_for_comparison that forgets to swap for a descending key.
pair_for_comparison_NoSwap(c, value) == <<ColOperand(c), ValOperand(value)>>

\* pair_for_comparison: (column, value) for an ascending key, swapped otherwise.
pair_for_comparison(c, value) ==
    IF is_ascending(c) THEN <<ColOperand(c), ValOperand(value)>>
    ELSE <<ValOperand(value), ColOperand(c)>>

\* OrderByColumnWrapper.comparable_value: the key with its ordering modifier
\* (and labels) removed.
comparable_value(c) == [c.column_name_or_obj EXCEPT !.modifier = "none"]

\* ---------------------------------------------- key binding (ordering.py)
\* The prefix of synthesized column names (imported from constants).
ORDER_COL_PREFIX == "_sqlapagination_oc_"

\* MappedOrderColumn.extra_column = None
NoColumn == [label |-> "", element |-> Clause("", "", "none")]

DirectColumn(order_by_column_wrapper, index) ==
    [kind |-> "Direct", order_by_wrapper |-> order_by_column_wrapper, index |-> index,
     attr |-> "", name |-> "", extra_column |-> NoColumn]

AttributeColumn(order_by_column_wrapper, index, attr) ==
    [kind |-> "Attribute", order_by_wrapper |-> order_by_column_wrapper, index |-> index,
     attr |-> attr, name |-> "", extra_column |-> NoColumn]

\* An AppendedColumn that names itself without incrementing the counter.
AppendedColumn_NoIncrement(order_by_column_wrapper, _counter) ==
    LET name == ORDER_COL_PREFIX \o ToString(_counter + 1)
    IN [column |-> [kind |-> "Appended", order_by_wrapper |-> order_by_column_wrapper,
                    index |-> -1, attr |-> "", name |-> name,
                    extra_column |-> [label |-> name,
                                      element |-> comparable_value(order_by_column_wrapper)]],
        _counter |-> _counter]

\* AppendedColumn.__init__ without an explicit name, run by one thread alone:
\* the class-level _counter is incremented and the name formatted from it;
\* extra_column is the comparable value labelled with the name.
AppendedColumn(order_by_column_wrapper, _counter) ==
    LET incremented == _counter + 1
        name == ORDER_COL_PREFIX \o ToString(incremented)
    IN [column |-> [kind |-> "Appended", order_by_wrapper |-> order_by_column_wrapper,
                    index |-> -1, attr |-> "", name |-> name,
                    extra_column |-> [label |-> name,
                                      element |-> comparable_value(order_by_column_wrapper)]],
        _counter |-> incremented]

\* derive_order_key: an entity of the key's table yields the key as an
\* attribute, a selected attribute with the key's table and name yields it
\* directly; otherwise None.
derive_order_key(order_column_wrapper, desc, column_index) ==
    IF desc.kind = "entity" /\ order_column_wrapper.table_name = desc.table
    THEN [found |-> TRUE,
          column |-> AttributeColumn(order_column_wrapper, column_index, order_column_wrapper.name)]
    ELSE IF /\ desc.kind = "attribute"
            /\ order_column_wrapper.table_name = desc.table
            /\ order_column_wrapper.name = desc.name
    THEN [found |-> TRUE, column |-> DirectColumn(order_column_wrapper, column_index)]
    ELSE [found |-> FALSE, column |-> DirectColumn(order_column_wrapper, -1)]

\* find_order_key: the first column description the key derives from, else a
\* new AppendedColumn.
find_order_key(order_column_wrapper, column_descriptions, _counter) ==
    LET matches == {i \in 1..Len(column_descriptions) :
                      derive_order_key(order_column_wrapper, column_descriptions[i], i - 1).found}
    IN IF matches # {}
       THEN LET i == CHOOSE m \in matches : \A o \in matches : m <= o
            IN [column |-> derive_order_key(order_column_wrapper, column_descriptions[i], i - 1).column,
                _counter |-> _counter]
       ELSE AppendedColumn(order_column_wrapper, _counter)

\* get_column_descriptors
get_column_descriptors(selectable_or_query) == selectable_or_query.columns

\* The list comprehension of _scaffold_order_by_clauses: find_order_key for
\* each key in turn, each AppendedColumn seeing the counter left by the ones
\* before it.
RECURSIVE mapped_order_by_columns(_, _, _)
mapped_order_by_columns(order_by_columns, column_descriptors, _counter) ==
    IF Len(order_by_columns) = 0
    THEN [columns |-> <<>>, _counter |-> _counter]
    ELSE LET first == find_order_key(Head(order_by_columns), column_descriptors, _counter)
             rest == mapped_order_by_columns(Tail(order_by_columns), column_descriptors,
                                             first._counter)
         IN [columns |-> <<first.column>> \o rest.columns, _counter |-> rest._counter]

\* MappedOrderColumn.order_by_clause: the key's own clause;
\* AppendedColumn.order_by_clause: the labelled extra column, descending when
\* the key is.
order_by_clause(column) ==
    IF column.kind = "Appended"
    THEN Clause("", column.extra_column.label,
                IF is_ascending(column.order_by_wrapper) THEN "none" ELSE "desc")
    ELSE column.order_by_wrapper.column_name_or_obj

\* _scaffold_order_by_clauses: the mapped columns, their ORDER BY clauses and
\* the class-level counter afterwards.
_scaffold_order_by_clauses(select_or_query, order_by_columns, _counter) ==
    LET column_descriptors == get_column_descriptors(select_or_query)
        mapped == mapped_order_by_columns(order_by_columns, column_descriptors, _counter)
    IN [mapped_order_by_columns |-> mapped.columns,
        clauses |-> [i \in 1..Len(mapped.columns) |-> order_by_clause(mapped.columns[i])],
        _counter |-> mapped._counter]

\* ------------------------------------------------------------- bookmarks
\* A bookmark is a dict with optional entries "keyset_pairs" and "direction";
\* keyset_pairs is an insertion-ordered dict, a sequence of (name, value).
EmptyBookmark == [keys |-> {}, keyset_pairs |-> <<>>, direction |-> ""]

Bookmark(pairs, direction) ==
    [keys |-> {"keyset_pairs", "direction"}, keyset_pairs |-> pairs, direction |-> direction]

\* bookmark.get("direction", "forward")
get_direction(bookmark) ==
    IF "direction" \in bookmark.keys THEN bookmark.direction ELSE "forward"

Entry(n, v) == [name |-> n, value |-> v]

\* d[name] = value on an insertion-ordered dict.
DictSet(d, n, v) ==
    IF \E i \in 1..Len(d) : d[i].name = n
    THEN [i \in 1..Len(d) |-> IF d[i].name = n THEN Entry(n, v) ELSE d[i]]
    ELSE Append(d, Entry(n, v))

DictKeys(d) == [i \in 1..Len(d) |-> d[i].name]
DictValues(d) == [i \in 1..Len(d) |-> d[i].value]

Reverse(s) == [i \in 1..Len(s) |-> s[Len(s) + 1 - i]]

\* --------------------------------------------------- paginator (paginator.py)
_should_reverse_order_by_clause(bookmark) == get_direction(bookmark) = "backward"

\* KeySetPaginator.__init__, run when AppendedColumn._counter is _counter;
\* mapped_order_by_columns is the local list of _scaffold_order_by_clauses.
KeySetPaginator(query_or_select, page_size, dialect, bookmark, _counter) ==
    LET parsed == parse_order_by_clause(query_or_select)
        cols == IF _should_reverse_order_by_clause(bookmark)
                THEN [i \in 1..Len(parsed) |-> reversed(parsed[i])]
                ELSE parsed
        scaffold == _scaffold_order_by_clauses(query_or_select, cols, _counter)
    IN [_select_or_query |-> query_or_select,
        _page_size |-> page_size,
        _dialect |-> dialect,
        _bookmark |-> bookmark,
        _order_by_columns |-> cols,
        mapped_order_by_columns |-> scaffold.mapped_order_by_columns,
        _order_by_clauses |-> scaffold.clauses]

\* AppendedColumn._counter after KeySetPaginator.__init__ has run.
CounterAfter(query_or_select, bookmark, _counter) ==
    LET parsed == parse_order_by_clause(query_or_select)
        cols == IF _should_reverse_order_by_clause(bookmark)
                THEN [i \in 1..Len(parsed) |-> reversed(parsed[i])]
                ELSE parsed
    IN _scaffold_order_by_clauses(query_or_select, cols, _counter)._counter

\* An expansion that drops the equalities on the leading positions.
ExpansionTerms_NoPrefix(lesser, greater) ==
    [eq_depth \in 1..Len(lesser) |->
        [eqs |-> <<>>, lt |-> <<lesser[eq_depth], greater[eq_depth]>>]]

\* The or_(and_(...)) expansion: for each eq_depth, equality on the positions
\* before it and a strict comparison at it.
ExpansionTerms(lesser, greater) ==
    [eq_depth \in 1..Len(lesser) |->
        [eqs |-> [index \in 1..(eq_depth - 1) |-> <<lesser[index], greater[index]>>],
         lt |-> <<lesser[eq_depth], greater[eq_depth]>>]]

\* _compare_sql_row_values
_compare_sql_row_values(lesser, greater, dialect) ==
    IF Len(lesser) # Len(greater)
    THEN [error |-> "ValueError", op |-> "", lesser |-> lesser, greater |-> greater, terms |-> <<>>]
    ELSE IF Len(lesser) = 1
    THEN [error |-> "", op |-> "lt", lesser |-> lesser, greater |-> greater, terms |-> <<>>]
    ELSE IF dialect # "None" /\ dialect \in SUPPORTS_NATIVE_ROW_VALUES_COMPARISON
    THEN [error |-> "", op |-> "tuple_lt", lesser |-> lesser, greater |-> greater, terms |-> <<>>]
    ELSE [error |-> "", op |-> "or", lesser |-> lesser, greater |-> greater,
          terms |-> ExpansionTerms(lesser, greater)]

\* A name check that compares the names as sets, ignoring their order.
NamesMismatch_AsSets(order_by_column_names, keyset_pairs) ==
    {order_by_column_names[i] : i \in 1..Len(order_by_column_names)}
      # {keyset_pairs[i].name : i \in 1..Len(keyset_pairs)}

\* order_by_column_names != list(keyset_pairs.keys())
NamesMismatch(order_by_column_names, keyset_pairs) ==
    order_by_column_names # DictKeys(keyset_pairs)

NoClause == [error |-> "", op |-> "", lesser |-> <<>>, greater |-> <<>>, terms |-> <<>>]
NoFilter == [kind |-> "none", clause |-> NoClause]

\* _apply_filter_condition_if_required: the filter attached to the base query,
\* or the error raised.
_apply_filter_condition_if_required(p) ==
    IF p._bookmark.keys = {}
    THEN [error |-> "", filter |-> NoFilter]
    ELSE IF "keyset_pairs" \notin p._bookmark.keys
    THEN [error |-> "KeyError", filter |-> NoFilter]
    ELSE
      LET keyset_pairs == p._bookmark.keyset_pairs
          order_by_column_names == [i \in 1..Len(p._order_by_columns) |-> p._order_by_columns[i].name]
      IN IF NamesMismatch(order_by_column_names, keyset_pairs)
         THEN [error |-> "KeySetPairsMismatchQueryError", filter |-> NoFilter]
         ELSE
           LET swapped == [i \in 1..Len(keyset_pairs) |->
                             pair_for_comparison(p._order_by_columns[i], DictValues(keyset_pairs)[i])]
               greater_row == [i \in 1..Len(swapped) |-> swapped[i][1]]
               lesser_row == [i \in 1..Len(swapped) |-> swapped[i][2]]
               filter_condition == _compare_sql_row_values(lesser_row, greater_row, p._dialect)
           IN IF filter_condition.error # ""
              THEN [error |-> filter_condition.error, filter |-> NoFilter]
              ELSE IF Len(p._select_or_query.group_by) > 0
              THEN [error |-> "", filter |-> [kind |-> "having", clause |-> filter_condition]]
              ELSE [error |-> "", filter |-> [kind |-> "where", clause |-> filter_condition]]

NoStatement == [columns |-> <<>>, join |-> "", filter |-> NoFilter, order_by |-> <<>>, limit |-> 0]

\* The base query with the filter attached: its selected columns, joins and
\* ORDER BY are those of the base query.
Filtered(select_or_query, filter) ==
    [columns |-> select_or_query.columns, join |-> select_or_query.join,
     filter |-> filter, order_by |-> select_or_query.order_by, limit |-> 0]

\* An order_by(None) that leaves the existing ORDER BY in place.
OrderByNone_Kept(stmt) == stmt

\* .order_by(None): the ORDER BY is cleared.
OrderByNone(stmt) == [stmt EXCEPT !.order_by = <<>>]

\* .order_by(*clauses): the clauses are added after the existing ORDER BY.
OrderBy(stmt, clauses) == [stmt EXCEPT !.order_by = @ \o clauses]

\* .limit(n)
Limit(stmt, n) == [stmt EXCEPT !.limit = n]

\* get_modified_sql_statement: filter, ordering replaced, limit page_size + 1.
get_modified_sql_statement(p) ==
    LET filtered == _apply_filter_condition_if_required(p)
    IN IF filtered.error # ""
       THEN [error |-> filtered.error, stmt |-> NoStatement]
       ELSE LET select_or_query ==
                    OrderBy(OrderByNone(Filtered(p._select_or_query, filtered.filter)),
                             p._order_by_clauses)
                total_rows_num_plus_one_extra_to_check_next == p._page_size + 1
            IN [error |-> "",
                stmt |-> Limit(select_or_query, total_rows_num_plus_one_extra_to_check_next)]

\* ------------------------------------------------ executing a statement
\* The value of an operand on a row.
OperandValue(x, row) == IF x.kind = "col" THEN row[x.name] ELSE x.value

\* SQL row-value comparison (a1, ..., an) < (b1, ..., bn): lexicographic.
RECURSIVE TupleLess(_, _)
TupleLess(a, b) ==
    IF Len(a) = 0 \/ Len(b) = 0 THEN FALSE
    ELSE IF Head(a) # Head(b) THEN Head(a) < Head(b)
    ELSE TupleLess(Tail(a), Tail(b))

\* Truth of a comparison clause on a row.
Holds(clause, row) ==
    LET l == [i \in 1..Len(clause.lesser) |-> OperandValue(clause.lesser[i], row)]
        g == [i \in 1..Len(clause.greater) |-> OperandValue(clause.greater[i], row)]
    IN CASE clause.op = "lt" -> l[1] < g[1]
         [] clause.op = "tuple_lt" -> TupleLess(l, g)
         [] clause.op = "or" ->
              \E t \in 1..Len(clause.terms) :
                 /\ \A e \in 1..Len(clause.terms[t].eqs) :
                       OperandValue(clause.terms[t].eqs[e][1], row)
                         = OperandValue(clause.terms[t].eqs[e][2], row)
                 /\ OperandValue(clause.terms[t].lt[1], row)
                      < OperandValue(clause.terms[t].lt[2], row)
         [] OTHER -> FALSE

Admits(filter, row) == filter.kind = "none" \/ Holds(filter.clause, row)

\* ORDER BY: r1 sorts strictly before r2 under the clause list.
RECURSIVE SortsBefore(_, _, _)
SortsBefore(r1, r2, order_by) ==
    IF Len(order_by) = 0 THEN FALSE
    ELSE LET c == Head(order_by)
             v1 == r1[c.name]
             v2 == r2[c.name]
         IN IF v1 # v2
            THEN IF c.modifier = "desc" THEN v1 > v2 ELSE v1 < v2
            ELSE SortsBefore(r1, r2, Tail(order_by))

RECURSIVE Sorted(_, _)
Sorted(S, order_by) ==
    IF S = {} THEN <<>>
    ELSE LET m == CHOOSE r \in S : \A o \in S \ {r} : SortsBefore(r, o, order_by)
         IN <<m>> \o Sorted(S \ {m}, order_by)

Prefix(s, n) == SubSeq(s, 1, IF n < Len(s) THEN n ELSE Len(s))

\* session.execute(statement).all(): WHERE / HAVING, ORDER BY, LIMIT.
Execute(rows_of_table, stmt) ==
    Prefix(Sorted({r \in rows_of_table : Admits(stmt.filter, r)}, stmt.order_by), stmt.limit)

\* The same statement executed without its LIMIT.
ExecuteUnlimited(rows_of_table, stmt) ==
    Sorted({r \in rows_of_table : Admits(stmt.filter, r)}, stmt.order_by)

\* ------------------------------------------------------ KeySetPage (page.py)
None == [some |-> FALSE, pairs |-> <<>>]
Some(d) == [some |-> TRUE, pairs |-> d]

\* {column.name: get_value_from_row_by_column_name(row, column.name) for column in ...}
RECURSIVE KeysetPairsOf(_, _)
KeysetPairsOf(row, order_by_columns) ==
    IF Len(order_by_columns) = 0 THEN <<>>
    ELSE LET n == Len(order_by_columns)
             c == order_by_columns[n]
         IN DictSet(KeysetPairsOf(row, SubSeq(order_by_columns, 1, n - 1)), c.name, row[c.name])

\* OrderedDict.get(key) on a sequence of items (key, pair).
TableGet(items, key) ==
    IF \E i \in 1..Len(items) : items[i].key = key
    THEN Some(items[CHOOSE i \in 1..Len(items) : items[i].key = key].pair)
    ELSE None

\* Python truth of an optional dict: None and {} are false.
Truthy(x) == x.some /\ Len(x.pairs) > 0

\* A trim that removes rows from the front of the fetched list.
TrimToPageSize_DropNearest(rows, page_size) ==
    IF Len(rows) > page_size THEN SubSeq(rows, Len(rows) - page_size + 1, Len(rows)) ELSE rows

\* A trim that keeps the lookahead row.
TrimToPageSize_KeepLookahead(rows, page_size) == Prefix(rows, page_size + 1)

\* self._rows[:self._metadata.page_size]
TrimToPageSize(rows, page_size) == Prefix(rows, page_size)

\* ParsingMetadata
ParsingMetadata(page_size, order_by_columns, bookmark) ==
    [page_size |-> page_size, order_by_columns |-> order_by_columns, bookmark |-> bookmark,
     expected_entries_count |-> page_size + 1]

\* KeySetPage.__init__
KeySetPage(rows, parsing_metadata) ==
    LET trimmed == TrimToPageSize(rows, parsing_metadata.page_size)
        built == [i \in 1..Len(rows) |->
                    [key |-> i - 1, pair |-> KeysetPairsOf(rows[i], parsing_metadata.order_by_columns)]]
        backward == get_direction(parsing_metadata.bookmark) = "backward"
        _keyset_pairs_table == IF backward THEN Reverse(built) ELSE built
        _rows == IF backward THEN Reverse(trimmed) ELSE trimmed
        _last_keyset_pair == TableGet(_keyset_pairs_table, Len(_rows) - 1)
        _additional_keyset_pair == TableGet(_keyset_pairs_table, Len(_rows))
    IN [_rows |-> _rows,
        _metadata |-> parsing_metadata,
        _first_keyset_pair |-> TableGet(_keyset_pairs_table, 0),
        _last_keyset_pair |-> _last_keyset_pair,
        _additional_keyset_pair |-> _additional_keyset_pair,
        _next_keyset_pair |-> IF Truthy(_additional_keyset_pair)
                              THEN _additional_keyset_pair ELSE _last_keyset_pair,
        _previous_keyset_pair |-> IF "keyset_pairs" \in parsing_metadata.bookmark.keys
                                  THEN Some(parsing_metadata.bookmark.keyset_pairs) ELSE None]

has_next(page) == page._next_keyset_pair.some

next(page) ==
    IF ~has_next(page) THEN EmptyBookmark
    ELSE Bookmark(page._next_keyset_pair.pairs, "forward")

\* A has_previous recomputed from the rows of the page.
has_previous_FromRows(page) == page._first_keyset_pair.some

has_previous(page) == page._previous_keyset_pair.some

previous(page) ==
    IF ~has_previous(page) THEN EmptyBookmark
    ELSE Bookmark(page._previous_keyset_pair.pairs, "backward")

\* AbstractPage.__len__
len(page) == Len(page._rows)

\* The outcome of reading a property: a value returned or an error raised.
Raised(error) == [returned |-> FALSE, error |-> error, value |-> 0]
Returned(value) == [returned |-> TRUE, error |-> "", value |-> value]

\* A total_pages_count that answers zero.
total_pages_count_Zero(page) == Returned(0)

\* KeySetPage.total_pages_count
total_pages_count(page) == Raised("TypeError")

\* KeySetPage.current_page_number
current_page_number(page) == Raised("TypeError")

\* KeySetPage.last_page
last_page(page) == Raised("TypeError")

\* KeySetPaginator.parse_result
parse_result(p, resulted_rows) ==
    KeySetPage(resulted_rows, ParsingMetadata(p._page_size, p._order_by_columns, p._bookmark))

\* ------------------------------------------------- request bookmarks
\* keyset_pairs a caller can send for a query: one entry per ordering key with
\* any values, or a name sequence different from the ordering key names.
MatchingPairs(q) == {KeysetPairsOf(r, parse_order_by_clause(q)) : r \in RowsOf(q)}

MismatchedPairs(q) ==
    LET m == KeysetPairsOf(CHOOSE r \in RowsOf(q) : \A n \in DOMAIN r : r[n] = 1,
                           parse_order_by_clause(q))
    IN ({<<Entry("name", 1)>>, Append(m, Entry("name", 1)), SubSeq(m, 1, Len(m) - 1), Reverse(m)}
         \cup {[m EXCEPT ![Len(m)] = Entry("name", 1)]}) \ {m}

UserBookmarks(q) ==
    {Bookmark(kp, d) : kp \in MatchingPairs(q) \cup MismatchedPairs(q), d \in {"forward", "backward"}}
    \cup {[keys |-> {"keyset_pairs"}, keyset_pairs |-> kp, direction |-> ""] :
            kp \in MatchingPairs(q) \cup MismatchedPairs(q)}
    \cup {[keys |-> {"direction"}, keyset_pairs |-> <<>>, direction |-> d] :
            d \in {"forward", "backward"}}
    \cup {EmptyBookmark}

\* ------------------------------------------------------------ the state
VARIABLES
    table,      \* the rows of the static table
    paginator,  \* the KeySetPaginator of the current request
    pc,         \* "constructed", "statement", "failed", "fetched", "page", "page_handed"
    outcome,    \* result of get_modified_sql_statement: error and statement
    rows,       \* the rows handed to parse_result
    page,       \* the KeySetPage built by parse_result
    via,        \* where the current bookmark came from: "start", "given", "next", "previous"
    trail,      \* the pages of the previous requests of this traversal (last two)
    AppendedColumn_counter,  \* the class attribute AppendedColumn._counter
    created,    \* the names of the AppendedColumns created so far, in creation order
    threads,    \* per thread: its position inside AppendedColumn.__init__
    read,       \* the last property read on a page and its outcome
    lo_page,    \* a LimitOffsetPage
    heap,       \* the expression objects: kind, modifier, element (an object or 0), name
    keys,       \* the ordering specification: an OrderByColumnWrapper per key
    walk,       \* the walk over a wrapper chain in progress
    proc,       \* the position inside parse_order_by_clause / [c.reversed for c in ...]
    specs,      \* the parsed ordering specification and its successive reversals
    lo_paginator,  \* a LimitOffsetPaginator
    lo_context,    \* its bookmarked() context: entered or not, and how it was last left
    lo_outcome     \* the statement its get_modified_sql_statement returned last

keysetVars == <<table, paginator, pc, outcome, rows, page, via, trail>>
namingVars == <<AppendedColumn_counter, created, threads>>
readVars == <<read, lo_page>>
walkVars == <<heap, keys, walk, proc, specs>>
offsetVars == <<lo_paginator, lo_context, lo_outcome>>
vars == <<keysetVars, namingVars, readVars, walkVars, offsetVars>>

NoOutcome == [error |-> "", stmt |-> NoStatement]
NoPage == KeySetPage(<<>>, ParsingMetadata(0, <<>>, EmptyBookmark))

\* LimitOffsetPage.__init__
LimitOffsetPage(rows_, page_size, offset, rows_count) ==
    [_rows |-> rows_, _page_size |-> page_size, _rows_count |-> rows_count,
     _current_offset |-> offset]

\* A limit-offset bookmark: {} or {"offset": n}.
EmptyOffsetBookmark == [keys |-> {}, offset |-> 0]
OffsetBookmark(n) == [keys |-> {"offset"}, offset |-> n]

\* A total_pages_count that rounds up.
LimitOffsetPage_total_pages_count_Ceil(p) ==
    Returned((p._rows_count + p._page_size - 1) \div p._page_size)

\* LimitOffsetPage.total_pages_count
LimitOffsetPage_total_pages_count(p) == Returned(p._rows_count \div p._page_size)

\* LimitOffsetPage.current_page_number
LimitOffsetPage_current_page_number(p) == Returned(p._current_offset \div p._page_size)

\* LimitOffsetPage.has_next
LimitOffsetPage_has_next(p) == p._current_offset + p._page_size < p._rows_count

\* LimitOffsetPage.next
LimitOffsetPage_next(p) ==
    IF ~LimitOffsetPage_has_next(p) THEN EmptyOffsetBookmark
    ELSE OffsetBookmark(p._current_offset + p._page_size)

\* A has_previous that holds from the second page on.
LimitOffsetPage_has_previous_FromSecondPage(p) == p._current_offset >= p._page_size

\* LimitOffsetPage.has_previous
LimitOffsetPage_has_previous(p) ==
    IF p._current_offset = 0 \/ p._current_offset < p._page_size
    THEN FALSE
    ELSE p._current_offset < p._page_size

\* LimitOffsetPage.previous
LimitOffsetPage_previous(p) ==
    IF ~LimitOffsetPage_has_previous(p) THEN EmptyOffsetBookmark
    ELSE OffsetBookmark(p._current_offset - p._page_size)

\* No property has been read; no LimitOffsetPage has been built.
NoRead == [prop |-> "", result |-> Returned(0)]
NoReads ==
    /\ read = NoRead
    /\ lo_page = LimitOffsetPage(<<>>, 1, 0, 0)

\* No walk is in progress; no ordering specification is being built.
NoWalk == [fn |-> "", status |-> "idle", x |-> 0, copied |-> 0, parent |-> 0, steps |-> 0,
           base |-> 0, direction |-> "none", error |-> ""]
NoWalks ==
    /\ heap = <<>>
    /\ keys = <<>>
    /\ walk = NoWalk
    /\ proc = [stage |-> "idle", phase |-> "", clauses |-> <<>>, k |-> 0, obj |-> 0, tmp |-> 0,
               building |-> <<>>, gen |-> 0, live |-> 0]
    /\ specs = <<>>

\* LimitOffsetPaginator.__init__ (and Paginator.__init__): the offset is the
\* bookmark's "offset" entry, 0 without one.
LimitOffsetPaginator(query_or_select, page_size, bookmark, total_count_key) ==
    [_select_or_query |-> query_or_select,
     _page_size |-> page_size,
     _bookmark |-> bookmark,
     _offset |-> IF "offset" \in bookmark.keys THEN bookmark.offset ELSE 0,
     _total_count_key |-> total_count_key]

\* No LimitOffsetPaginator is in use.
NotEntered ==
    /\ lo_context = [entered |-> FALSE, bookmark |-> EmptyOffsetBookmark, left |-> "never"]
    /\ lo_outcome = [select_or_query |-> "", limit |-> 0, offset |-> 0, total_count_label |-> ""]
NoBookmarked ==
    /\ lo_paginator = LimitOffsetPaginator("", 1, EmptyOffsetBookmark, "")
    /\ NotEntered

\* The threads constructing AppendedColumns at the same time; a thread is
\* at "start", has loaded the counter ("loaded") or has stored it ("stored").
Threads == 1..MaxThreads
NoThreads == [t \in Threads |-> [pc |-> "start", loaded |-> 0, made |-> 0]]

\* The names of the AppendedColumns a paginator's construction created.
AppendedNames(p) ==
    LET RECURSIVE Names(_)
        Names(columns) ==
            IF Len(columns) = 0 THEN <<>>
            ELSE (IF Head(columns).kind = "Appended" THEN <<Head(columns).name>> ELSE <<>>)
                   \o Names(Tail(columns))
    IN Names(p.mapped_order_by_columns)

\* The tables of a query: authors 1..m for a single key, any set of
\* (id, published_at) rows for two keys, all books of authors 1..m for three.
TablesOf(q) ==
    IF Len(q.order_by) = 1 \/ SameNames(q)
    THEN {{[id |-> i] : i \in 1..m} : m \in 0..MaxId}
    ELSE IF Len(q.order_by) = 2
    THEN SUBSET RowsOf(q)
    ELSE {{r \in RowsOf(q) : r.id <= m} : m \in 0..MaxVal}

\* A request: a paginator constructed on a query with the caller's bookmark.
Init ==
    /\ \E q \in Queries, page_size \in PageSizes, dialect \in Dialects :
          /\ table \in TablesOf(q)
          /\ \E bookmark \in UserBookmarks(q) :
                /\ paginator = KeySetPaginator(q, page_size, dialect, bookmark, 0)
                /\ AppendedColumn_counter = CounterAfter(q, bookmark, 0)
                /\ via = IF bookmark = EmptyBookmark THEN "start" ELSE "given"
    /\ created = AppendedNames(paginator)
    /\ threads = NoThreads
    /\ NoReads
    /\ NoWalks
    /\ NoBookmarked
    /\ pc = "constructed"
    /\ outcome = NoOutcome
    /\ rows = <<>>
    /\ page = NoPage
    /\ trail = <<>>

\* statement = paginator.get_modified_sql_statement()
GetModifiedSqlStatement ==
    /\ pc = "constructed"
    /\ outcome' = get_modified_sql_statement(paginator)
    /\ pc' = IF outcome'.error = "" THEN "statement" ELSE "failed"
    /\ UNCHANGED <<table, paginator, rows, page, via, trail>>
    /\ UNCHANGED <<namingVars, readVars, walkVars, offsetVars>>

\* result = session.execute(statement).all()
ExecuteStatement ==
    /\ pc = "statement"
    /\ rows' = Execute(table, outcome.stmt)
    /\ pc' = "fetched"
    /\ UNCHANGED <<table, paginator, outcome, page, via, trail>>
    /\ UNCHANGED <<namingVars, readVars, walkVars, offsetVars>>

\* page = paginator.parse_result(result)
ParseResult ==
    /\ pc = "fetched"
    /\ page' = parse_result(paginator, rows)
    /\ pc' = "page"
    /\ UNCHANGED <<table, paginator, outcome, rows, via, trail>>
    /\ UNCHANGED <<namingVars, readVars, walkVars, offsetVars>>

\* parse_result handed a row list of another length than the fetched one.
ParseResultOf ==
    /\ pc = "fetched"
    /\ \E k \in 0..Cardinality(table) :
          /\ k # Len(rows)
          /\ rows' = Prefix(ExecuteUnlimited(table, outcome.stmt), k)
          /\ Len(rows') = k
    /\ page' = parse_result(paginator, rows')
    /\ pc' = "page_handed"
    /\ UNCHANGED <<table, paginator, outcome, via, trail>>
    /\ UNCHANGED <<namingVars, readVars, walkVars, offsetVars>>

Remember == IF Len(trail) < 2 THEN Append(trail, [page |-> page, via |-> via])
            ELSE <<trail[2], [page |-> page, via |-> via]>>

NewRequest(bookmark) ==
    /\ paginator' = KeySetPaginator(paginator._select_or_query, paginator._page_size,
                                    paginator._dialect, bookmark, AppendedColumn_counter)
    /\ AppendedColumn_counter' =
          CounterAfter(paginator._select_or_query, bookmark, AppendedColumn_counter)
    /\ created' = created \o AppendedNames(paginator')
    /\ UNCHANGED <<threads, readVars, walkVars, offsetVars>>
    /\ pc' = "constructed"
    /\ outcome' = NoOutcome
    /\ rows' = <<>>
    /\ page' = NoPage
    /\ UNCHANGED table

\* The next request carries the page's `next` bookmark.
FollowNext ==
    /\ pc = "page"
    /\ has_next(page)
    /\ NewRequest(next(page))
    /\ via' = "next"
    /\ trail' = Remember

\* The next request carries the page's `previous` bookmark.
FollowPrevious ==
    /\ pc = "page"
    /\ has_previous(page)
    /\ NewRequest(previous(page))
    /\ via' = "previous"
    /\ trail' = Remember

Next ==
    \/ GetModifiedSqlStatement
    \/ ExecuteStatement
    \/ ParseResult
    \/ ParseResultOf
    \/ FollowNext
    \/ FollowPrevious

Spec == Init /\ [][Next]_vars

\* ---------------------------------------------- before any request
NoPaginator == KeySetPaginator(Select(SelectAuthor, <<>>, <<>>), 1, "None", EmptyBookmark, 0)

\* No paginator has been constructed yet.
NoRequest ==
    /\ table = {}
    /\ paginator = NoPaginator
    /\ pc = "idle"
    /\ outcome = NoOutcome
    /\ rows = <<>>
    /\ page = NoPage
    /\ via = "start"
    /\ trail = <<>>

\* --------------------------------------- reading a page's properties
\* A KeySetPage built by parse_result from a row list of any length, for a
\* paginator constructed with any bookmark.
InitRead ==
    /\ \E q \in Queries, page_size \in PageSizes :
          /\ table = RowsOf(q)
          /\ \E bookmark \in UserBookmarks(q) :
                /\ paginator = KeySetPaginator(q, page_size, "None", bookmark, 0)
                /\ AppendedColumn_counter = CounterAfter(q, bookmark, 0)
                /\ via = IF bookmark = EmptyBookmark THEN "start" ELSE "given"
          /\ \E k \in 0..Cardinality(table) : rows = Prefix(Sorted(table, q.order_by), k)
    /\ created = AppendedNames(paginator)
    /\ threads = NoThreads
    /\ pc = "page_handed"
    /\ outcome = NoOutcome
    /\ page = parse_result(paginator, rows)
    /\ trail = <<>>
    /\ read = NoRead
    /\ lo_page = LimitOffsetPage(<<>>, 1, 0, 0)
    /\ NoWalks
    /\ NoBookmarked

\* page.total_pages_count
ReadTotalPagesCount ==
    /\ pc = "page_handed"
    /\ read' = [prop |-> "total_pages_count", result |-> total_pages_count(page)]
    /\ UNCHANGED <<keysetVars, namingVars, lo_page, walkVars, offsetVars>>

\* page.current_page_number
ReadCurrentPageNumber ==
    /\ pc = "page_handed"
    /\ read' = [prop |-> "current_page_number", result |-> current_page_number(page)]
    /\ UNCHANGED <<keysetVars, namingVars, lo_page, walkVars, offsetVars>>

\* page.last_page
ReadLastPage ==
    /\ pc = "page_handed"
    /\ read' = [prop |-> "last_page", result |-> last_page(page)]
    /\ UNCHANGED <<keysetVars, namingVars, lo_page, walkVars, offsetVars>>

NextRead ==
    \/ ReadTotalPagesCount
    \/ ReadCurrentPageNumber
    \/ ReadLastPage

SpecRead == InitRead /\ [][NextRead]_vars

\* ------------------------------------ reading a LimitOffsetPage's properties
\* LimitOffsetPage(rows, page_size, offset, rows_count) with at most
\* page_size rows.
InitOffset ==
    /\ NoRequest
    /\ AppendedColumn_counter = 0
    /\ created = <<>>
    /\ threads = NoThreads
    /\ read = NoRead
    /\ NoWalks
    /\ NoBookmarked
    /\ \E rows_count \in 0..MaxRowsCount, page_size \in 1..MaxLimit, offset \in 0..MaxOffset :
          \E n \in 0..page_size :
             lo_page = LimitOffsetPage([i \in 1..n |-> offset + i], page_size, offset, rows_count)

ReadOffsetTotalPagesCount ==
    /\ read' = [prop |-> "total_pages_count", result |-> LimitOffsetPage_total_pages_count(lo_page)]
    /\ UNCHANGED <<keysetVars, namingVars, lo_page, walkVars, offsetVars>>

ReadOffsetCurrentPageNumber ==
    /\ read' = [prop |-> "current_page_number",
                result |-> LimitOffsetPage_current_page_number(lo_page)]
    /\ UNCHANGED <<keysetVars, namingVars, lo_page, walkVars, offsetVars>>

ReadOffsetHasNext ==
    /\ read' = [prop |-> "has_next", result |-> Returned(LimitOffsetPage_has_next(lo_page))]
    /\ UNCHANGED <<keysetVars, namingVars, lo_page, walkVars, offsetVars>>

ReadOffsetNext ==
    /\ read' = [prop |-> "next", result |-> Returned(LimitOffsetPage_next(lo_page))]
    /\ UNCHANGED <<keysetVars, namingVars, lo_page, walkVars, offsetVars>>

ReadOffsetHasPrevious ==
    /\ read' = [prop |-> "has_previous",
                result |-> Returned(LimitOffsetPage_has_previous(lo_page))]
    /\ UNCHANGED <<keysetVars, namingVars, lo_page, walkVars, offsetVars>>

ReadOffsetPrevious ==
    /\ read' = [prop |-> "previous", result |-> Returned(LimitOffsetPage_previous(lo_page))]
    /\ UNCHANGED <<keysetVars, namingVars, lo_page, walkVars, offsetVars>>

NextOffset ==
    \/ ReadOffsetTotalPagesCount
    \/ ReadOffsetCurrentPageNumber
    \/ ReadOffsetHasNext
    \/ ReadOffsetNext
    \/ ReadOffsetHasPrevious
    \/ ReadOffsetPrevious

SpecOffset == InitOffset /\ [][NextOffset]_vars

\* ------------------------------------- repeated paginator constructions
\* select(Author.id)
SelectAuthorId == [columns |-> <<Attribute("authors", "id")>>, join |-> ""]

\* Queries some of whose ordering keys are not among the selected columns
\* or entities.
NamingQueries ==
    {Select(SelectAuthor, <<Clause("books", "published_at", m)>>, <<>>) : m \in {"none", "desc"}}
    \cup
    {Select(SelectAuthor,
            <<Clause("authors", "id", "none"), Clause("books", "book_id", m),
              Clause("books", "published_at", "desc")>>, <<>>) : m \in {"none", "asc"}}
    \cup
    {Select(SelectAuthorId, <<Clause("authors", "id", m)>>, <<>>) : m \in {"none", "desc"}}
    \cup
    {Select(SelectAuthorId, <<Clause("authors", "name", "none")>>, <<>>)}

\* No bookmark, or a bookmark naming the ordering keys of the query.
NamingBookmarks(q) ==
    {EmptyBookmark}
    \cup {Bookmark([i \in 1..Len(q.order_by) |-> Entry(q.order_by[i].name, 1)], d) :
            d \in {"forward", "backward"}}

\* A process in which no paginator has been constructed yet.
InitNaming ==
    /\ NoRequest
    /\ AppendedColumn_counter = 0
    /\ created = <<>>
    /\ threads = NoThreads
    /\ NoReads
    /\ NoWalks
    /\ NoBookmarked

\* paginator = KeySetPaginator(query, page_size, bookmark=bookmark), run by a
\* single thread.
Construct ==
    /\ \E q \in NamingQueries, page_size \in PageSizes :
          \E bookmark \in NamingBookmarks(q) :
             /\ CounterAfter(q, bookmark, AppendedColumn_counter) <= MaxCounter
             /\ paginator' = KeySetPaginator(q, page_size, "None", bookmark, AppendedColumn_counter)
             /\ AppendedColumn_counter' = CounterAfter(q, bookmark, AppendedColumn_counter)
    /\ created' = created \o AppendedNames(paginator')
    /\ pc' = "constructed"
    /\ outcome' = NoOutcome
    /\ UNCHANGED <<table, rows, page, via, trail, threads, readVars, walkVars, offsetVars>>

NextNaming ==
    \/ Construct
    \/ GetModifiedSqlStatement

SpecNaming == InitNaming /\ [][NextNaming]_vars

\* --------------------------- AppendedColumn.__init__ run by several threads
\* AppendedColumn._counter += 1, first half: the thread reads the counter.
LoadCounter(t) ==
    /\ threads[t].pc = "start"
    /\ threads[t].made < MaxBindings
    /\ threads' = [threads EXCEPT ![t].pc = "loaded", ![t].loaded = AppendedColumn_counter]
    /\ UNCHANGED <<AppendedColumn_counter, created>>
    /\ UNCHANGED <<keysetVars, readVars, walkVars, offsetVars>>

\* AppendedColumn._counter += 1, second half: the thread writes the value it
\* read plus one.
StoreCounter(t) ==
    /\ threads[t].pc = "loaded"
    /\ AppendedColumn_counter' = threads[t].loaded + 1
    /\ threads' = [threads EXCEPT ![t].pc = "stored"]
    /\ UNCHANGED created
    /\ UNCHANGED <<keysetVars, readVars, walkVars, offsetVars>>

\* name = "{}{}".format(ORDER_COL_PREFIX, AppendedColumn._counter); self.name = name
FormatName(t) ==
    /\ threads[t].pc = "stored"
    /\ created' = Append(created, ORDER_COL_PREFIX \o ToString(AppendedColumn_counter))
    /\ threads' = [threads EXCEPT ![t].pc = "start", ![t].made = @ + 1]
    /\ UNCHANGED AppendedColumn_counter
    /\ UNCHANGED <<keysetVars, readVars, walkVars, offsetVars>>

NextThreads ==
    \E t \in Threads :
       \/ LoadCounter(t)
       \/ StoreCounter(t)
       \/ FormatName(t)

SpecThreads == InitNaming /\ [][NextThreads]_vars

\* ------------------------------------- walks over wrapper chains (ordering.py)
_WRAPPING_DEPTH == 1000
_WRAPPING_OVERFLOW ==
    "Maximum element wrapping depth reached; there's probably a circularity in sqlalchemy "
    \o "that sqlapagination doesn't know how to handle."
_ORDER_MODIFIERS == {"asc", "desc", "nullsfirst", "nullslast"}

\* Expression objects: a column, a Label around an element, a
\* UnaryExpression with a modifier around an element.
Column(name) == [kind |-> "column", modifier |-> "none", element |-> 0, name |-> name]
Label(name, element) == [kind |-> "label", modifier |-> "none", element |-> element, name |-> name]
UnaryExpression(modifier, element) ==
    [kind |-> "unary", modifier |-> modifier, element |-> element, name |-> ""]

\* The wrappers an ORDER BY clause can be nested in.
LinkTypes ==
    {[kind |-> "label", modifier |-> "none", name |-> "l"]}
    \cup {[kind |-> "unary", modifier |-> m, name |-> ""] : m \in _ORDER_MODIFIERS}

\* The objects of a column wrapped in links[1](links[2](...)), stored from
\* address base + 1 on.
Chain(links, name, base) ==
    [i \in 1..(Len(links) + 1) |->
        IF i <= Len(links)
        THEN [kind |-> links[i].kind, modifier |-> links[i].modifier,
              element |-> base + i + 1, name |-> links[i].name]
        ELSE Column(name)]

\* The ORDER BY clauses handed to parse_order_by_clause: one key or two keys
\* in few wrappers, a column labelled more than _WRAPPING_DEPTH times, and a
\* label whose element is the label itself.
WalkInputs ==
    {[heap |-> Chain(l, "id", 0), keys |-> <<1>>] : l \in UNION {[1..m -> LinkTypes] : m \in 0..MaxLinks}}
    \cup
    {[heap |-> Chain(l1, "id", 0) \o Chain(l2, "published_at", Len(l1) + 1),
      keys |-> <<1, Len(l1) + 2>>] : l1, l2 \in UNION {[1..m -> LinkTypes] : m \in 0..1}}
    \cup
    {[heap |-> Chain([i \in 1..(_WRAPPING_DEPTH + 1) |->
                         [kind |-> "label", modifier |-> "none", name |-> "l"]], "id", 0),
      keys |-> <<1>>]}
    \cup
    {[heap |-> <<Label("l", 1)>>, keys |-> <<1>>]}

\* column_element._clone(): a shallow copy, stored at the next address.
_clone(h, id) == Append(h, h[id])

\* A _copy_internals that leaves the element shared with the original.
_copy_internals_Shared(h, x) == h

\* x._copy_internals(): x.element becomes a copy of itself.
_copy_internals(h, x) ==
    IF h[x].element = 0 THEN h
    ELSE [Append(h, h[h[x].element]) EXCEPT ![x].element = Len(h) + 1]

\* str(element): the text of an expression is that of the objects it is
\* nested of, outermost first.
RECURSIVE str(_, _)
str(h, id) ==
    IF id = 0 THEN <<>>
    ELSE <<[kind |-> h[id].kind, modifier |-> h[id].modifier, name |-> h[id].name]>>
         \o str(h, h[id].element)

\* _get_order_direction(column_name_or_obj) of a wrapper that has been built:
\* the outermost asc or desc.
RECURSIVE DirectionOf(_, _)
DirectionOf(h, id) ==
    IF id = 0 THEN "none"
    ELSE IF h[id].modifier \in {"asc", "desc"} THEN h[id].modifier
    ELSE DirectionOf(h, h[id].element)

\* parse_order_by_clause is about to wrap the first clause.
InitWalk ==
    /\ NoRequest
    /\ NoBookmarked
    /\ AppendedColumn_counter = 0
    /\ created = <<>>
    /\ threads = NoThreads
    /\ NoReads
    /\ \E input \in WalkInputs :
          /\ heap = input.heap
          /\ keys = <<>>
          /\ specs = <<>>
          /\ proc = [stage |-> "parse", phase |-> "direction", clauses |-> input.keys, k |-> 1,
                     obj |-> input.keys[1], tmp |-> 0, building |-> <<>>, gen |-> 0,
                     live |-> Len(input.heap)]
    /\ walk = NoWalk

\* Entering the walk the current phase calls for: _reverse_order_direction
\* (reversed), _get_order_direction (__init__), _remove_order_direction
\* (element, for comparable_value and for full_name), strip_labels
\* (comparable_value).
Call ==
    /\ proc.stage \in {"parse", "reverse"}
    /\ walk.status = "idle"
    /\ CASE proc.phase = "direction" ->
              /\ walk' = [NoWalk EXCEPT !.fn = "_get_order_direction", !.status = "running",
                                        !.x = proc.obj, !.base = Len(heap)]
              /\ heap' = heap
         [] proc.phase = "comparable" ->
              /\ walk' = [NoWalk EXCEPT !.fn = "strip_labels", !.status = "running",
                                        !.x = proc.tmp, !.base = Len(heap)]
              /\ heap' = heap
         [] proc.phase = "reverse" ->
              /\ heap' = _clone(heap, keys[proc.k].column_name_or_obj)
              /\ walk' = [NoWalk EXCEPT !.fn = "_reverse_order_direction", !.status = "running",
                                        !.x = Len(heap) + 1, !.copied = Len(heap) + 1,
                                        !.base = Len(heap)]
         [] proc.phase \in {"element", "full_name"} ->
              /\ heap' = _clone(heap, proc.obj)
              /\ walk' = [NoWalk EXCEPT !.fn = "_remove_order_direction", !.status = "running",
                                        !.x = Len(heap) + 1, !.copied = Len(heap) + 1,
                                        !.base = Len(heap)]
    /\ UNCHANGED <<keys, proc, specs>>
    /\ UNCHANGED <<keysetVars, namingVars, readVars, offsetVars>>

\* One call of _get_order_direction: None for None, the modifier when it is
\* asc or desc, otherwise the recursive call on the element.
GetOrderDirectionStep ==
    /\ walk.fn = "_get_order_direction"
    /\ walk.status = "running"
    /\ IF walk.x = 0
       THEN walk' = [walk EXCEPT !.status = "returned", !.direction = "none"]
       ELSE IF heap[walk.x].modifier \in {"asc", "desc"}
       THEN walk' = [walk EXCEPT !.status = "returned", !.direction = heap[walk.x].modifier]
       ELSE /\ walk.steps < MaxRecursion
            /\ walk' = [walk EXCEPT !.x = heap[walk.x].element, !.steps = @ + 1]
    /\ UNCHANGED <<heap, keys, proc, specs>>
    /\ UNCHANGED <<keysetVars, namingVars, readVars, offsetVars>>

\* The interpreter ends the recursion of _get_order_direction at its
\* recursion limit, wherever the call stack reaches it.
GetOrderDirectionRecursionError ==
    /\ walk.fn = "_get_order_direction"
    /\ walk.status = "running"
    /\ walk.steps >= 1
    /\ walk' = [walk EXCEPT !.status = "raised", !.error = "RecursionError"]
    /\ UNCHANGED <<heap, keys, proc, specs>>
    /\ UNCHANGED <<keysetVars, namingVars, readVars, offsetVars>>

\* One iteration of the while loop of strip_labels.
StripLabelsStep ==
    /\ walk.fn = "strip_labels"
    /\ walk.status = "running"
    /\ IF heap[walk.x].kind = "label"
       THEN walk' = [walk EXCEPT !.x = heap[walk.x].element, !.steps = @ + 1]
       ELSE walk' = [walk EXCEPT !.status = "returned"]
    /\ UNCHANGED <<heap, keys, proc, specs>>
    /\ UNCHANGED <<keysetVars, namingVars, readVars, offsetVars>>

\* One iteration of the for loop of _reverse_order_direction, or the raise
\* after its last iteration.
ReverseOrderDirectionStep ==
    /\ walk.fn = "_reverse_order_direction"
    /\ walk.status = "running"
    /\ IF walk.steps = _WRAPPING_DEPTH
       THEN /\ walk' = [walk EXCEPT !.status = "raised", !.error = _WRAPPING_OVERFLOW]
            /\ heap' = heap
       ELSE LET mod == heap[walk.x].modifier
            IN IF mod \in {"asc", "desc"}
               THEN /\ heap' = [heap EXCEPT ![walk.x].modifier =
                                               IF mod = "asc" THEN "desc" ELSE "asc"]
                    /\ walk' = [walk EXCEPT !.status = "returned"]
               ELSE IF heap[walk.x].kind = "column"
               THEN /\ heap' = heap
                    /\ walk' = [walk EXCEPT !.status = "returned"]
               ELSE /\ heap' = _copy_internals(heap, walk.x)
                    /\ walk' = [walk EXCEPT !.x = heap'[walk.x].element, !.steps = @ + 1]
    /\ UNCHANGED <<keys, proc, specs>>
    /\ UNCHANGED <<keysetVars, namingVars, readVars, offsetVars>>

\* One iteration of the for loop of _remove_order_direction, or the raise
\* after its last iteration.
RemoveOrderDirectionStep ==
    /\ walk.fn = "_remove_order_direction"
    /\ walk.status = "running"
    /\ IF walk.steps = _WRAPPING_DEPTH
       THEN /\ walk' = [walk EXCEPT !.status = "raised", !.error = _WRAPPING_OVERFLOW]
            /\ heap' = heap
       ELSE IF heap[walk.x].modifier \in _ORDER_MODIFIERS
       THEN LET copied_internals == _copy_internals(heap, walk.x)
                child == copied_internals[walk.x].element
            IN IF walk.parent = 0
               THEN /\ heap' = copied_internals
                    /\ walk' = [walk EXCEPT !.copied = child, !.x = child, !.steps = @ + 1]
               ELSE /\ heap' = [copied_internals EXCEPT ![walk.parent].element = child]
                    /\ walk' = [walk EXCEPT !.x = child, !.steps = @ + 1]
       ELSE IF heap[walk.x].kind = "column"
       THEN /\ heap' = heap
            /\ walk' = [walk EXCEPT !.status = "returned"]
       ELSE /\ heap' = _copy_internals(heap, walk.x)
            /\ walk' = [walk EXCEPT !.parent = walk.x, !.x = heap'[walk.x].element,
                                    !.steps = @ + 1]
    /\ UNCHANGED <<keys, proc, specs>>
    /\ UNCHANGED <<keysetVars, namingVars, readVars, offsetVars>>

\* The wrapper under construction is complete: the next key is taken up, or
\* the list of wrappers becomes the ordering specification.
KeyDone(column_name_or_obj, full_name) ==
    LET built == Append(proc.building, [column_name_or_obj |-> column_name_or_obj,
                                        full_name |-> full_name])
    IN /\ heap' = SubSeq(heap, 1, proc.live)
       /\ IF proc.k < Len(proc.clauses)
          THEN /\ proc' = [proc EXCEPT !.k = @ + 1, !.building = built, !.tmp = 0,
                                       !.obj = IF proc.stage = "parse" THEN proc.clauses[proc.k + 1]
                                              ELSE 0,
                                       !.phase = IF proc.stage = "parse" THEN "direction"
                                                 ELSE "reverse"]
               /\ UNCHANGED <<keys, specs>>
          ELSE /\ proc' = [proc EXCEPT !.stage = "ready", !.phase = "", !.k = 0, !.obj = 0,
                                       !.tmp = 0, !.building = <<>>,
                                       !.gen = IF proc.stage = "reverse" THEN @ + 1 ELSE @]
               /\ keys' = built
               /\ specs' = Append(specs, built)

\* The caller of a finished walk goes on: an exception ends the construction;
\* reversed hands the copy to OrderByColumnWrapper; __init__ wraps a
\* direction-less clause in asc, then evaluates comparable_value and
\* full_name, whose intermediate objects are dropped.
Proceed ==
    /\ proc.stage \in {"parse", "reverse"}
    /\ walk.status \in {"returned", "raised"}
    /\ IF walk.status = "raised"
       THEN /\ proc' = [proc EXCEPT !.stage = "failed"]
            /\ UNCHANGED <<heap, keys, walk, specs>>
       ELSE /\ walk' = NoWalk
            /\ CASE proc.phase = "reverse" ->
                      /\ proc' = [proc EXCEPT !.obj = walk.copied, !.live = Len(heap),
                                              !.phase = "direction"]
                      /\ UNCHANGED <<heap, keys, specs>>
                 [] proc.phase = "direction" ->
                      /\ IF walk.direction = "none"
                         THEN /\ heap' = Append(heap, UnaryExpression("asc", proc.obj))
                              /\ proc' = [proc EXCEPT !.obj = Len(heap) + 1,
                                                      !.live = Len(heap) + 1,
                                                      !.phase = "element"]
                         ELSE /\ heap' = heap
                              /\ proc' = [proc EXCEPT !.phase = "element"]
                      /\ UNCHANGED <<keys, specs>>
                 [] proc.phase = "element" ->
                      /\ proc' = [proc EXCEPT !.tmp = walk.copied, !.phase = "comparable"]
                      /\ UNCHANGED <<heap, keys, specs>>
                 [] proc.phase = "comparable" ->
                      /\ heap' = SubSeq(heap, 1, proc.live)
                      /\ proc' = [proc EXCEPT !.tmp = 0, !.phase = "full_name"]
                      /\ UNCHANGED <<keys, specs>>
                 [] proc.phase = "full_name" -> KeyDone(proc.obj, str(heap, walk.copied))
    /\ UNCHANGED <<keysetVars, namingVars, readVars, offsetVars>>

\* [c.reversed for c in self._order_by_columns] begins.
StartReversal ==
    /\ proc.stage = "ready"
    /\ proc.gen < MaxReversals
    /\ proc' = [proc EXCEPT !.stage = "reverse", !.phase = "reverse", !.k = 1]
    /\ UNCHANGED <<heap, keys, walk, specs>>
    /\ UNCHANGED <<keysetVars, namingVars, readVars, offsetVars>>

NextWalk ==
    \/ Call
    \/ GetOrderDirectionStep
    \/ GetOrderDirectionRecursionError
    \/ StripLabelsStep
    \/ ReverseOrderDirectionStep
    \/ RemoveOrderDirectionStep
    \/ Proceed
    \/ StartReversal

SpecWalk == InitWalk /\ [][NextWalk]_vars

\* ------------------------------------------------ a traversal by `next`
\* The first request of a traversal: a paginator constructed without bookmark.
InitForward ==
    /\ \E q \in Queries \cup SameNameQueries, page_size \in PageSizes, dialect \in Dialects :
          /\ table \in TablesOf(q)
          /\ paginator = KeySetPaginator(q, page_size, dialect, EmptyBookmark, 0)
          /\ AppendedColumn_counter = CounterAfter(q, EmptyBookmark, 0)
    /\ via = "start"
    /\ created = AppendedNames(paginator)
    /\ threads = NoThreads
    /\ NoReads
    /\ NoWalks
    /\ NoBookmarked
    /\ pc = "constructed"
    /\ outcome = NoOutcome
    /\ rows = <<>>
    /\ page = NoPage
    /\ trail = <<>>

\* The caller fetches, and fetches again with `next` as long as has_next holds.
NextForward ==
    \/ GetModifiedSqlStatement
    \/ ExecuteStatement
    \/ ParseResult
    \/ FollowNext

\* Weak fairness of NextForward, with its enabling condition written out (a
\* request is under way, or the page at hand has a `next` to follow): the
\* caller goes on as long as there is something to do.
FairForward ==
    \/ []<>~(pc \in {"constructed", "statement", "fetched"} \/ (pc = "page" /\ has_next(page)))
    \/ []<><<NextForward>>_vars

SpecForward == InitForward /\ [][NextForward]_vars /\ FairForward

\* ------------------------- LimitOffsetPaginator.bookmarked (paginator.py)
\* The bookmarks a caller passes: {}, {"offset": n}, and a dict without an
\* "offset" entry.
OffsetBookmarks ==
    {EmptyOffsetBookmark, [keys |-> {"keyset_pairs"}, offset |-> 0]}
    \cup {OffsetBookmark(n) : n \in 0..MaxOffset}

\* bookmark.get("offset", 0)
get_offset(bookmark) == IF "offset" \in bookmark.keys THEN bookmark.offset ELSE 0

\* LimitOffsetPaginator.get_modified_sql_statement: limit, offset and the
\* total-count subquery labelled with the total-count key.
LimitOffsetPaginator_get_modified_sql_statement(p) ==
    [select_or_query |-> p._select_or_query, limit |-> p._page_size, offset |-> p._offset,
     total_count_label |-> p._total_count_key]

\* A finally clause that resets the offset only.
bookmarked_exit_OffsetOnly(p) == [p EXCEPT !._offset = 0]

\* The finally clause of bookmarked.
bookmarked_exit(p) == [p EXCEPT !._offset = 0, !._bookmark = EmptyOffsetBookmark]

\* LimitOffsetPaginator.parse_result
LimitOffsetPaginator_parse_result(p, resulted_rows) ==
    IF Len(resulted_rows) = 0
    THEN LimitOffsetPage(<<>>, p._page_size, p._offset, 0)
    ELSE LimitOffsetPage([i \in 1..Len(resulted_rows) |-> resulted_rows[i].entity],
                         p._page_size, p._offset, resulted_rows[1].total)

\* paginator = LimitOffsetPaginator(query, page_size, bookmark, total_count_key)
InitBookmarked ==
    /\ NoRequest
    /\ AppendedColumn_counter = 0
    /\ created = <<>>
    /\ threads = NoThreads
    /\ NoReads
    /\ NoWalks
    /\ \E q \in {"select(Message).order_by(Message.id)", "select(Author).order_by(Author.id)"},
          page_size \in 1..MaxLimit, bookmark \in OffsetBookmarks,
          total_count_key \in {"sqlalchemy_pagination_total_count", "total"} :
          lo_paginator = LimitOffsetPaginator(q, page_size, bookmark, total_count_key)
    /\ NotEntered

\* stmt = paginator.get_modified_sql_statement()
OffsetGetModifiedSqlStatement ==
    /\ lo_outcome' = LimitOffsetPaginator_get_modified_sql_statement(lo_paginator)
    /\ UNCHANGED <<keysetVars, namingVars, readVars, walkVars, lo_paginator, lo_context>>

\* result = session.execute(stmt).all(); page = paginator.parse_result(result)
\* On a table of total rows, each row of the result carries the entity and
\* the total count.
OffsetParseResult ==
    /\ lo_outcome.limit > 0
    /\ \E total \in {0, MaxRowsCount} :
          LET left == IF total > lo_outcome.offset THEN total - lo_outcome.offset ELSE 0
              n == IF left < lo_outcome.limit THEN left ELSE lo_outcome.limit
              result == [i \in 1..n |-> [entity |-> lo_outcome.offset + i, total |-> total]]
          IN lo_page' = LimitOffsetPaginator_parse_result(lo_paginator, result)
    /\ UNCHANGED <<keysetVars, namingVars, read, walkVars, offsetVars>>

\* with paginator.bookmarked(bookmark): bookmarked runs up to its yield and
\* the context is entered.
EnterBookmarked ==
    /\ ~lo_context.entered
    /\ \E bookmark \in OffsetBookmarks :
          /\ lo_paginator' = [lo_paginator EXCEPT !._bookmark = bookmark,
                                                   !._offset = get_offset(bookmark)]
          /\ lo_context' = [lo_context EXCEPT !.entered = TRUE, !.bookmark = bookmark]
    /\ UNCHANGED <<keysetVars, namingVars, readVars, walkVars, lo_outcome>>

\* The body of the with statement ends or raises: the finally clause runs
\* either way.
LeaveBookmarked ==
    /\ lo_context.entered
    /\ \E left \in {"normally", "exception"} :
          lo_context' = [lo_context EXCEPT !.entered = FALSE, !.left = left]
    /\ lo_paginator' = bookmarked_exit(lo_paginator)
    /\ UNCHANGED <<keysetVars, namingVars, readVars, walkVars, lo_outcome>>

NextBookmarked ==
    \/ OffsetGetModifiedSqlStatement
    \/ OffsetParseResult
    \/ EnterBookmarked
    \/ LeaveBookmarked

SpecBookmarked == InitBookmarked /\ [][NextBookmarked]_vars

\* ------------------------------------------------------------ properties
Last(s) == s[Len(s)]
IsPage == pc \in {"page", "page_handed"}

\* The query's declared ORDER BY and the table laid out in it.
DeclaredOrder == paginator._select_or_query.order_by
TableInOrder == Sorted(table, DeclaredOrder)
PositionOf(r) == CHOOSE i \in 1..Len(TableInOrder) : TableInOrder[i] = r

\* The row made of a bookmark's key values.
BookmarkRow(pairs) == [n \in {pairs[i].name : i \in 1..Len(pairs)} |->
                          pairs[CHOOSE i \in 1..Len(pairs) : pairs[i].name = n].value]

\* C1: the second page of a traversal from the start (fetched with the first
\* page's `next` bookmark) begins with the immediate successor, in the
\* declared order, of the last row shown on the first page: no row is
\* skipped and none repeated.
C1_NoRowSkipped ==
    (pc = "page" /\ via = "next" /\ Len(trail) = 1 /\ trail[1].via = "start")
    => LET shown == trail[1].page._rows
       IN IF page._rows = <<>>
          THEN shown # <<>> /\ PositionOf(Last(shown)) = Len(TableInOrder)
          ELSE shown # <<>> /\ PositionOf(Head(page._rows)) = PositionOf(Last(shown)) + 1

\* C2: round trip: when P2 was fetched with P1's `next` bookmark, the page
\* fetched with P2's `previous` bookmark shows exactly the rows of P1.
C2_RoundTrip ==
    (pc = "page" /\ via = "previous" /\ Len(trail) = 2 /\ trail[2].via = "next")
    => page._rows = trail[1].page._rows

\* C3: has_next holds exactly when more than page_size rows were returned,
\* and `next` is the empty bookmark otherwise.
C3_LookaheadCorrect ==
    IsPage => /\ has_next(page) <=> (Len(rows) > paginator._page_size)
              /\ (Len(rows) <= paginator._page_size) => next(page) = EmptyBookmark

\* The ordering key names of the query, in order.
OrderingNames == [i \in 1..Len(DeclaredOrder) |-> DeclaredOrder[i].name]

BookmarkMismatch ==
    /\ "keyset_pairs" \in paginator._bookmark.keys
    /\ DictKeys(paginator._bookmark.keyset_pairs) # OrderingNames

\* C4: with a bookmark whose keyset_pairs names are not exactly the ordering
\* key names in order, get_modified_sql_statement fails with the mismatch
\* error, returns no statement (no filter, ordering or limit) and leaves the
\* paginator unchanged.
C4_MismatchRejected ==
    [][(pc = "constructed" /\ BookmarkMismatch)
         => /\ pc' = "failed"
            /\ outcome'.error = "KeySetPairsMismatchQueryError"
            /\ outcome'.stmt = NoStatement
            /\ paginator' = paginator]_vars

\* A bookmark with the ordering key names in another order was rejected.
C4_Witness ==
    /\ pc = "failed"
    /\ outcome.error = "KeySetPairsMismatchQueryError"
    /\ Len(paginator._bookmark.keyset_pairs) = Len(OrderingNames)
    /\ {paginator._bookmark.keyset_pairs[i].name : i \in 1..Len(OrderingNames)}
         = {OrderingNames[i] : i \in 1..Len(OrderingNames)}

\* A row is strictly past the bookmark in the resolved order: after it in the
\* declared order for a forward bookmark, before it for a backward one.
StrictlyPast(r) ==
    LET b == BookmarkRow(paginator._bookmark.keyset_pairs)
    IN IF get_direction(paginator._bookmark) = "backward"
       THEN SortsBefore(r, b, DeclaredOrder)
       ELSE SortsBefore(b, r, DeclaredOrder)

\* C5: the filter of the statement admits exactly the rows strictly past the
\* bookmark in the resolved order, for every mixture of ascending and
\* descending keys; without a bookmark no filter is attached.
C5_FilterStrictlyPast ==
    (pc = "statement")
    => IF paginator._bookmark = EmptyBookmark
       THEN outcome.stmt.filter.kind = "none"
       ELSE /\ outcome.stmt.filter.kind # "none"
            /\ \A r \in RowsOf(paginator._select_or_query) :
                  Admits(outcome.stmt.filter, r) <=> StrictlyPast(r)

\* A backward bookmark over a direction-less, a descending and a direction-less
\* key, whose filter admits some rows and excludes others.
C5_Witness ==
    /\ pc = "statement"
    /\ Len(DeclaredOrder) = 3
    /\ DeclaredOrder[1].modifier = "none"
    /\ DeclaredOrder[2].modifier = "desc"
    /\ DeclaredOrder[3].modifier = "none"
    /\ get_direction(paginator._bookmark) = "backward"
    /\ \E r \in RowsOf(paginator._select_or_query) : Admits(outcome.stmt.filter, r)
    /\ \E r \in RowsOf(paginator._select_or_query) :
          /\ ~Admits(outcome.stmt.filter, r)
          /\ r # BookmarkRow(paginator._bookmark.keyset_pairs)

OperandValues(xs, row) == [i \in 1..Len(xs) |-> OperandValue(xs[i], row)]

\* C6: the predicate built without native row-value support is true exactly
\* when the native tuple comparison lesser < greater is; for one key both are
\* lesser[0] < greater[0].
C6_ExpansionEquivalent ==
    (pc = "statement" /\ outcome.stmt.filter.kind # "none")
    => LET lesser == outcome.stmt.filter.clause.lesser
           greater == outcome.stmt.filter.clause.greater
           expanded == _compare_sql_row_values(lesser, greater, "None")
       IN \A r \in RowsOf(paginator._select_or_query) :
             /\ Holds(expanded, r)
                  <=> TupleLess(OperandValues(lesser, r), OperandValues(greater, r))
             /\ Len(lesser) = 1
                  => (Holds(expanded, r)
                        <=> OperandValue(lesser[1], r) < OperandValue(greater[1], r))

\* A three-key comparison decided at the last position (leading positions
\* equal), built as the or_/and_ expansion.
C6_Witness ==
    /\ pc = "statement"
    /\ outcome.stmt.filter.kind # "none"
    /\ outcome.stmt.filter.clause.op = "or"
    /\ \E r \in RowsOf(paginator._select_or_query) :
          LET l == OperandValues(outcome.stmt.filter.clause.lesser, r)
              g == OperandValues(outcome.stmt.filter.clause.greater, r)
          IN /\ Len(l) = 3 /\ l[1] = g[1] /\ l[2] = g[2] /\ l[3] < g[3]
             /\ Holds(outcome.stmt.filter.clause, r)

\* C7: the page fetched with the `previous` bookmark of a page that was itself
\* fetched with a backward bookmark shows only rows strictly before the first
\* row of that page.
C7_BackwardProgress ==
    (/\ pc = "page" /\ via = "previous" /\ Len(trail) >= 1
     /\ get_direction(Last(trail).page._metadata.bookmark) = "backward"
     /\ Last(trail).page._rows # <<>>)
    => \A i \in 1..Len(page._rows) :
          SortsBefore(page._rows[i], Head(Last(trail).page._rows), DeclaredOrder)

\* C8: a non-empty `next` bookmark is forward and carries the lookahead row's
\* key tuple when a lookahead row was fetched, otherwise the key tuple of the
\* last row shown (last in presentation order).
C8_NextBookmark ==
    (IsPage /\ has_next(page) /\ page._rows # <<>>)
    => /\ next(page).direction = "forward"
       /\ next(page).keyset_pairs =
            IF Len(rows) > paginator._page_size
            THEN KeysetPairsOf(rows[paginator._page_size + 1], paginator._order_by_columns)
            ELSE KeysetPairsOf(Last(page._rows), paginator._order_by_columns)

\* C9: has_previous holds exactly when the originating bookmark carried key
\* values; `previous` is then that bookmark's key values tagged backward,
\* whatever the rows, and the empty bookmark otherwise.
C9_PreviousIsOrigin ==
    IsPage
    => /\ has_previous(page)
            <=> ("keyset_pairs" \in paginator._bookmark.keys
                   /\ Len(paginator._bookmark.keyset_pairs) > 0)
       /\ has_previous(page)
            => previous(page) = Bookmark(paginator._bookmark.keyset_pairs, "backward")
       /\ ~has_previous(page) => previous(page) = EmptyBookmark

\* A page with rows, fetched with a forward bookmark, offers that bookmark's
\* key values as `previous`, and they differ from every row on the page.
C9_Witness ==
    /\ IsPage
    /\ has_previous(page)
    /\ get_direction(paginator._bookmark) = "forward"
    /\ page._rows # <<>>
    /\ \A i \in 1..Len(page._rows) :
          KeysetPairsOf(page._rows[i], paginator._order_by_columns) # previous(page).keyset_pairs

\* C10: a page never exposes more than page_size rows, whatever the length of
\* the row list handed to parse_result, and the statement is limited to
\* page_size + 1 rows.
C10_AtMostPageSize ==
    /\ IsPage => len(page) <= paginator._page_size
    /\ (pc \in {"statement", "fetched", "page", "page_handed"})
         => outcome.stmt.limit = paginator._page_size + 1

\* A row list longer than page_size + 1 was parsed with a backward bookmark
\* and the page shows page_size rows.
C10_Witness ==
    /\ pc = "page_handed"
    /\ Len(rows) > paginator._page_size + 1
    /\ get_direction(paginator._bookmark) = "backward"
    /\ len(page) = paginator._page_size

\* The labelled column a statement selects when a column labelled `name` was
\* added to its selected output.
LabelledColumn(name) == [kind |-> "label", table |-> "", name |-> name]

\* C11: for every ordering key resolved with the Appended strategy, the
\* statement returned by get_modified_sql_statement has that key's synthetic
\* labelled column in its selected output.
C11_AppendedSelected ==
    (pc = "statement")
    => \A i \in 1..Len(paginator.mapped_order_by_columns) :
          LET column == paginator.mapped_order_by_columns[i]
          IN column.kind = "Appended"
             => \E j \in 1..Len(outcome.stmt.columns) :
                   outcome.stmt.columns[j] = LabelledColumn(column.name)

\* C12: over any sequence of paginator constructions by one thread, the
\* synthesized names of all AppendedColumns created so far are pairwise
\* different, each is the prefix followed by the counter value of its
\* creation, and the counter never decreases.
C12_SequentialNamesUnique ==
    [][/\ \A i, j \in 1..Len(created') : i # j => created'[i] # created'[j]
       /\ \A i \in 1..Len(created') : created'[i] = ORDER_COL_PREFIX \o ToString(i)
       /\ AppendedColumn_counter' >= AppendedColumn_counter
       /\ AppendedColumn_counter' = Len(created')]_vars

\* A construction that created two AppendedColumns for one query after an
\* earlier construction had created others.
C12_Witness ==
    /\ pc = "constructed"
    /\ Len(AppendedNames(paginator)) = 2
    /\ Len(created) >= 3

\* The number of counter increments completed by the threads.
IncrementsDone ==
    LET RECURSIVE Sum(_)
        Sum(T) == IF T = {} THEN 0
                  ELSE LET t == CHOOSE x \in T : TRUE
                       IN threads[t].made + (IF threads[t].pc = "stored" THEN 1 ELSE 0)
                            + Sum(T \ {t})
    IN Sum(Threads)

\* C13: when several threads construct AppendedColumns at the same time, with
\* the read and the write of the counter increment and the later read that
\* forms the name interleaved in any order, no two bindings receive the same
\* synthesized name and no increment is lost.
C13_ConcurrentNamesUnique ==
    /\ \A i, j \in 1..Len(created) : i # j => created[i] # created[j]
    /\ AppendedColumn_counter = IncrementsDone

\* C14: on every KeySetPage, whatever its rows and bookmark, reading
\* total_pages_count, current_page_number or last_page raises TypeError and
\* returns no value; the page, its rows and its bookmarks are unchanged by
\* the failed read.
C14_UnsupportedRaises ==
    [][read'.prop \in {"total_pages_count", "current_page_number", "last_page"}
         => /\ read'.result.error = "TypeError"
            /\ ~read'.result.returned
            /\ page' = page
            /\ page'._rows = page._rows
            /\ next(page') = next(page)
            /\ previous(page') = previous(page)]_vars

\* total_pages_count was read on a page that shows rows and offers both
\* bookmarks.
C14_Witness ==
    /\ pc = "page_handed"
    /\ read.prop = "total_pages_count"
    /\ read.result.error = "TypeError"
    /\ page._rows # <<>>
    /\ has_next(page)
    /\ has_previous(page)

\* v is the floor of a / b.
IsFloor(v, a, b) == v * b <= a /\ a < (v + 1) * b

\* C16: for every LimitOffsetPage with rows_count >= 0, page_size >= 1 and
\* offset >= 0: total_pages_count = floor(rows_count / page_size),
\* current_page_number = floor(offset / page_size), has_next holds exactly
\* when offset + page_size < rows_count, and `next` is
\* {offset: offset + page_size} when has_next and the empty bookmark
\* otherwise; rows_count=10, page_size=3, offset=3 gives 3, 1 and true.
C16_OffsetArithmetic ==
    LET rows_count == lo_page._rows_count
        page_size == lo_page._page_size
        offset == lo_page._current_offset
        v == read.result.value
        example == rows_count = 10 /\ page_size = 3 /\ offset = 3
    IN /\ read.prop # "" => read.result.returned
       /\ read.prop = "total_pages_count"
            => IsFloor(v, rows_count, page_size) /\ (example => v = 3)
       /\ read.prop = "current_page_number"
            => IsFloor(v, offset, page_size) /\ (example => v = 1)
       /\ read.prop = "has_next"
            => (v <=> (offset + page_size < rows_count)) /\ (example => v)
       /\ read.prop = "next"
            => v = IF offset + page_size < rows_count
                   THEN OffsetBookmark(offset + page_size)
                   ELSE EmptyOffsetBookmark

\* total_pages_count was read on the page of the example and rows_count is
\* not a multiple of page_size.
C16_Witness ==
    /\ read.prop = "total_pages_count"
    /\ lo_page._rows_count = 10
    /\ lo_page._page_size = 3
    /\ lo_page._current_offset = 3
    /\ read.result.value = 3

\* C20: for every LimitOffsetPage, whatever its offset, page_size and
\* rows_count, has_previous is false and `previous` is the empty bookmark; a
\* page at offset >= page_size never offers {offset: offset - page_size}.
C20_NoPrevious ==
    /\ read.prop = "has_previous" => read.result.value = FALSE
    /\ read.prop = "previous"
         => /\ read.result.value = EmptyOffsetBookmark
            /\ read.result.value # OffsetBookmark(lo_page._current_offset - lo_page._page_size)

\* `previous` was read on a page at an offset of at least page_size.
C20_Witness ==
    /\ read.prop = "previous"
    /\ lo_page._current_offset >= lo_page._page_size
    /\ lo_page._current_offset + lo_page._page_size < lo_page._rows_count
    /\ read.result.value = EmptyOffsetBookmark

\* The direction a declared clause resolves to: ascending when none is
\* declared, the opposite one for a backward bookmark.
ResolvedDirection(clause, bookmark) ==
    LET declared == IF clause.modifier = "desc" THEN "desc" ELSE "asc"
    IN IF get_direction(bookmark) = "backward"
       THEN (IF declared = "asc" THEN "desc" ELSE "asc")
       ELSE declared

\* C17: the returned statement's ORDER BY is the resolved key sequence and
\* nothing else (the base ordering is cleared, not appended to): the keys of
\* the base query's ORDER BY in the same positions, each with its declared
\* direction (ascending when none) without a bookmark or with a forward one
\* and the opposite direction with a backward one; selected entities and
\* joins are those of the base query.
C17_OrderingReplaced ==
    (pc = "statement")
    => LET base == paginator._select_or_query
           stmt == outcome.stmt
       IN /\ Len(stmt.order_by) = Len(base.order_by)
          /\ \A i \in 1..Len(base.order_by) :
                /\ i <= Len(stmt.order_by)
                /\ stmt.order_by[i].table = base.order_by[i].table
                /\ stmt.order_by[i].name = base.order_by[i].name
                /\ stmt.order_by[i].modifier
                     = ResolvedDirection(base.order_by[i], paginator._bookmark)
          /\ stmt.columns = base.columns
          /\ stmt.join = base.join

\* A statement for a backward bookmark over a joined query with a
\* direction-less, a descending and a direction-less key.
C17_Witness ==
    /\ pc = "statement"
    /\ get_direction(paginator._bookmark) = "backward"
    /\ outcome.stmt.join = "Author.books"
    /\ Len(DeclaredOrder) = 3
    /\ DeclaredOrder[1].modifier = "none"
    /\ DeclaredOrder[2].modifier = "desc"
    /\ outcome.stmt.order_by[1].modifier = "desc"
    /\ outcome.stmt.order_by[2].modifier = "asc"

\* The rows of the table strictly past the bookmark, in the declared order.
PastBookmark == Sorted({r \in table : StrictlyPast(r)}, DeclaredOrder)

\* C18: for a page fetched with a backward bookmark, the row removed by
\* trimming is the lookahead row, the fetched row farthest from the cursor,
\* and the page shows the page_size rows nearest to the cursor (all of them
\* when there are fewer) in the declared order of the query.
C18_BackwardTrim ==
    (pc = "page" /\ get_direction(paginator._bookmark) = "backward")
    => LET n == Len(PastBookmark)
           page_size == paginator._page_size
           k == IF n < page_size THEN n ELSE page_size
       IN /\ page._rows = SubSeq(PastBookmark, n - k + 1, n)
          /\ Len(rows) > page_size
               => /\ Len(rows) = page_size + 1
                  /\ Last(rows) = PastBookmark[n - page_size]
                  /\ \A i \in 1..Len(page._rows) : page._rows[i] # Last(rows)
                  /\ \A i \in 1..page_size : \E j \in 1..Len(page._rows) : page._rows[j] = rows[i]

\* A backward page of two rows over three keys for which a lookahead row was
\* fetched and trimmed.
C18_Witness ==
    /\ pc = "page"
    /\ get_direction(paginator._bookmark) = "backward"
    /\ Len(DeclaredOrder) = 3
    /\ paginator._page_size = 2
    /\ Len(rows) = 3
    /\ len(page) = 2

Flipped(direction) == IF direction = "asc" THEN "desc" ELSE "asc"

\* What the clauses handed to parse_order_by_clause say: the direction of
\* each (ascending when it has none) and its text without ordering modifiers.
ClauseDirections ==
    [k \in 1..Len(proc.clauses) |->
        LET d == DirectionOf(heap, proc.clauses[k]) IN IF d = "none" THEN "asc" ELSE d]
ClauseNames ==
    [k \in 1..Len(proc.clauses) |->
        SelectSeq(str(heap, proc.clauses[k]), LAMBDA o : o.modifier \notin _ORDER_MODIFIERS)]

SpecDirections(h, s) == [k \in 1..Len(s) |-> DirectionOf(h, s[k].column_name_or_obj)]
SpecNames(s) == [k \in 1..Len(s) |-> s[k].full_name]
SpecObjects(h, s) == [k \in 1..Len(s) |-> str(h, s[k].column_name_or_obj)]

\* C15: the parsed specification has the clauses' keys in their order, with
\* their names and directions (ascending for a clause without direction);
\* every reversal keeps the keys, their order and names and flips every
\* direction, so that reversing twice gives the directions back; and no step
\* of parsing or reversing changes a specification that has been built, nor
\* any object that existed when the walk in progress was called.
C15_ReversalInvolution ==
    [][/\ \A i \in 1..Len(specs') :
            /\ Len(specs'[i]) = Len(proc.clauses)
            /\ SpecNames(specs'[i]) = ClauseNames
            /\ SpecDirections(heap', specs'[i]) =
                  IF i % 2 = 1 THEN ClauseDirections
                  ELSE [k \in 1..Len(proc.clauses) |-> Flipped(ClauseDirections[k])]
       /\ \A i \in 1..Len(specs) : SpecObjects(heap', specs[i]) = SpecObjects(heap, specs[i])
       /\ \A o \in 1..walk.base : o <= Len(heap') => heap'[o] = heap[o]]_vars

\* A two-key specification with a direction-less and a descending clause has
\* been parsed and reversed twice.
C15_Witness ==
    /\ Len(specs) = 3
    /\ Len(proc.clauses) = 2
    /\ DirectionOf(heap, proc.clauses[1]) = "none"
    /\ DirectionOf(heap, proc.clauses[2]) = "desc"
    /\ SpecDirections(heap, specs[2]) = <<"desc", "asc">>
    /\ SpecDirections(heap, specs[3]) = <<"asc", "desc">>

\* The object reached from object id by unwrapping n times; 0 when the chain
\* ends before.
RECURSIVE After(_, _, _)
After(h, id, n) ==
    IF id = 0 \/ n = 0 THEN id
    ELSE IF n = 1 THEN h[id].element
    ELSE After(h, After(h, id, n \div 2), n - (n \div 2))

WalkOrigin ==
    IF walk.fn = "_get_order_direction" THEN proc.obj
    ELSE IF walk.fn = "strip_labels" THEN proc.tmp
    ELSE walk.base + 1

\* C19: no walk over a wrapper chain takes more than _WRAPPING_DEPTH steps,
\* and a walk over a chain deeper than _WRAPPING_DEPTH, or over a cyclic
\* chain, that ends with an error ends with the wrapping-overflow error.
C19_BoundedUnwrapping ==
    /\ walk.steps <= _WRAPPING_DEPTH
    /\ (walk.status = "raised" /\ After(heap, WalkOrigin, _WRAPPING_DEPTH) # 0)
          => walk.error = _WRAPPING_OVERFLOW

\* The row a bookmark points at sorts strictly before the row another
\* bookmark points at, in the declared order.
BookmarkPast(earlier, later) ==
    SortsBefore(BookmarkRow(earlier.keyset_pairs), BookmarkRow(later.keyset_pairs), DeclaredOrder)

\* C21: a traversal from the start by `next` reaches a page with has_next
\* false and an empty `next`, and no fetch on the way fails; each `next` bookmark followed is strictly past
\* the one followed before it; a fetch that returned no rows gives a page
\* with has_next false.
C21_ForwardTerminates ==
    /\ <>(pc = "page" /\ ~has_next(page) /\ next(page) = EmptyBookmark)
    /\ [](pc # "failed")
    /\ [](pc = "page" /\ via = "next" /\ Last(trail).via = "next"
            => BookmarkPast(Last(trail).page._metadata.bookmark, paginator._bookmark))
    /\ [](pc = "page" /\ rows = <<>> => ~has_next(page))

\* C22: a non-empty `next` bookmark carries one keyset_pairs entry per
\* ordering key, named as the keys in their order, and the request that
\* follows it does not fail the name check of get_modified_sql_statement.
C22_BookmarkAccepted ==
    /\ (pc = "page" /\ has_next(page)) => DictKeys(next(page).keyset_pairs) = OrderingNames
    /\ (pc = "failed" /\ via = "next") => outcome.error # "KeySetPairsMismatchQueryError"

\* C23: inside the context the paginator's bookmark is the one passed and its
\* offset that bookmark's offset (0 without one), and a statement built there
\* uses it; once the context has been left, normally or by an exception, the
\* offset is 0 and the bookmark empty, whatever they were before; page_size,
\* total-count key and base query never change.
C23_BookmarkedFrame ==
    [][/\ lo_context'.entered
            => /\ lo_paginator'._bookmark = lo_context'.bookmark
               /\ lo_paginator'._offset = get_offset(lo_context'.bookmark)
       /\ (lo_outcome' # lo_outcome)
            => /\ lo_outcome'.offset = lo_paginator'._offset
               /\ lo_outcome'.limit = lo_paginator'._page_size
       /\ (~lo_context'.entered /\ lo_context'.left # "never")
            => /\ lo_paginator'._offset = 0
               /\ lo_paginator'._bookmark = EmptyOffsetBookmark
       /\ lo_paginator'._page_size = lo_paginator._page_size
       /\ lo_paginator'._total_count_key = lo_paginator._total_count_key
       /\ lo_paginator'._select_or_query = lo_paginator._select_or_query]_vars

\* A context entered with offset 3 was left by an exception after a statement
\* and a page had been built inside it.
C23_Witness ==
    /\ ~lo_context.entered
    /\ lo_context.left = "exception"
    /\ lo_context.bookmark = OffsetBookmark(3)
    /\ lo_outcome.offset = 3
    /\ lo_page._current_offset = 3
    /\ lo_paginator._offset = 0
    /\ lo_paginator._bookmark = EmptyOffsetBookmark

====
